---- MODULE Spec2Model ----
(***************************************************************************)
(* Model of tools/ingest/pdf_ingestor_gemini.py: the PDF ingestion         *)
(* pipeline (extract -> chunk -> summarize with fallback -> reflect ->     *)
(* persist) and the files it reads and rewrites, and of the two result     *)
(* comparators (compare_results of the same file, and of                   *)
(* python_tests/compare_results.py).                                       *)
(*                                                                         *)
(* Python strings that the code slices, searches or formats are sequences  *)
(* of one-character strings; literals the code only stores are TLA+        *)
(* strings.                                                                *)
(***************************************************************************)
EXTENDS Integers, Sequences, FiniteSets, TLC

\* ------------------------------------------------------------------ bounds
MaxPages == 2
MaxPageLen == 2
MaxDocPages == 2
MaxDocPageLen == 1
MaxDocs == 2
MaxEntries == 2

\* ------------------------------------------------------- program constants
ChunkSize == 3000
Overlap == 500
ContentSampleLen == 5000

\* --------------------------------------------------------- string helpers
Min(a, b) == IF a < b THEN a ELSE b

\* Python s[a:b] for 0 <= a, 0 <= b (0-based, half-open, clipped to len(s)).
Slice(s, a, b) == SubSeq(s, Min(a, Len(s)) + 1, Min(b, Len(s)))

\* Python s[a:]
SliceFrom(s, a) == SubSeq(s, Min(a, Len(s)) + 1, Len(s))

\* Python `m in s` for strings: m occurs in s as a contiguous substring.
Contains(s, m) ==
    \E i \in 1..(Len(s) - Len(m) + 1) : SubSeq(s, i, i + Len(m) - 1) = m

DigitChars == <<"0", "1", "2", "3", "4", "5", "6", "7", "8", "9">>

RECURSIVE IntToStr(_)
\* Python str(n) / f"{n}" for a natural number n.
IntToStr(n) ==
    IF n < 10 THEN <<DigitChars[n + 1]>>
    ELSE IntToStr(n \div 10) \o <<DigitChars[(n % 10) + 1]>>

Whitespace == {" ", "\n", "\t", "\r"}

RECURSIVE LStrip(_)
LStrip(s) ==
    IF s # <<>> /\ Head(s) \in Whitespace THEN LStrip(Tail(s)) ELSE s

RECURSIVE RStrip(_)
RStrip(s) ==
    IF s # <<>> /\ s[Len(s)] \in Whitespace
    THEN RStrip(SubSeq(s, 1, Len(s) - 1)) ELSE s

\* Python str.strip()
Strip(s) == RStrip(LStrip(s))

RECURSIVE Replace(_, _)
\* Python s.replace(old, "") : every occurrence of old removed, left to right.
Replace(s, old) ==
    IF Len(s) < Len(old) THEN s
    ELSE IF SubSeq(s, 1, Len(old)) = old
         THEN Replace(SubSeq(s, Len(old) + 1, Len(s)), old)
         ELSE <<Head(s)>> \o Replace(Tail(s), old)

RECURSIVE ReplaceWith(_, _, _)
\* Python s.replace(old, new) for a non-empty old.
ReplaceWith(s, old, new) ==
    IF Len(s) < Len(old) THEN s
    ELSE IF SubSeq(s, 1, Len(old)) = old
         THEN new \o ReplaceWith(SubSeq(s, Len(old) + 1, Len(s)), old, new)
         ELSE <<Head(s)>> \o ReplaceWith(Tail(s), old, new)

\* Python s.endswith(suffix)
EndsWith(s, suffix) ==
    /\ Len(suffix) <= Len(s)
    /\ SubSeq(s, Len(s) - Len(suffix) + 1, Len(s)) = suffix

RECURSIVE Join(_, _)
\* Python sep.join(parts)
Join(sep, parts) ==
    IF parts = <<>> THEN <<>>
    ELSE IF Len(parts) = 1 THEN parts[1]
    ELSE parts[1] \o sep \o Join(sep, Tail(parts))

\* All sequences over S of length at most n.
SeqsUpTo(S, n) == UNION {[1..k -> S] : k \in 0..n}

\* ------------------------------------------------------------- extraction
PageHeaderOpen == <<"\n", "-", "-", "-", " ", "P", "a", "g", "e", " ">>

PageHeaderClose == <<" ", "-", "-", "-", "\n">>

RECURSIVE ExtractPages(_, _, _)
\* The page loop of extract_text_from_pdf: pages without text are skipped,
\* every other page contributes "\n--- Page {i+1} ---\n{page_text}\n".
ExtractPages(pages, i, text) ==
    IF i > Len(pages) THEN text
    ELSE ExtractPages(pages, i + 1,
            IF pages[i] # <<>>
            THEN text \o PageHeaderOpen \o IntToStr(i) \o PageHeaderClose
                      \o pages[i] \o <<"\n">>
            ELSE text)

NoneContent == [isNone |-> TRUE, text |-> <<>>]

\* extract_text_from_pdf: the text, or None when the reader raises.
extract_text_from_pdf(pdf) ==
    IF pdf.readable
    THEN [isNone |-> FALSE, text |-> ExtractPages(pdf.pages, 1, <<>>)]
    ELSE NoneContent

\* Python truthiness of `content`: None and "" are both falsy.
Falsy(c) == c.isNone \/ c.text = <<>>

\* ---------------------------------------------------------------- chunker
\* Mutant: the cursor advances by a whole chunk, the overlap is forgotten.
NextStartNoOverlap(start, cs, ov) == start + cs

\* start += chunk_size - overlap
NextStart(start, cs, ov) == start + cs - ov

\* Mutant: the window is one character short.
ChunkEndShort(start, cs, n) == Min(start + cs - 1, n)

\* end = min(start + chunk_size, len(content))
ChunkEnd(start, cs, n) == Min(start + cs, n)

RECURSIVE ChunkLoop(_, _, _, _, _)
\* The while loop of process_pdf that fills `chunks`.
ChunkLoop(text, start, acc, cs, ov) ==
    IF start < Len(text)
    THEN ChunkLoop(text, NextStart(start, cs, ov),
                   Append(acc, Slice(text, start, ChunkEnd(start, cs, Len(text)))),
                   cs, ov)
    ELSE acc

MakeChunks(text, cs, ov) == ChunkLoop(text, 0, <<>>, cs, ov)

\* -------------------------------------------------------------- providers
ErrorMarker == <<"E", "r", "r", "o", "r", ":">>

TimeoutMarker == <<"t", "i", "m", "e", "d", " ", "o", "u", "t">>

\* The test of process_pdf on the primary's response:
\*   "Error:" in response or "timed out" in response
IsErrorResponse(response) ==
    Contains(response, ErrorMarker) \/ Contains(response, TimeoutMarker)

RespOk == <<"K", "e", "y", "s", ".">>

\* f"[ERROR: API request failed - {response.status_code}]"
RespBracket == <<"[", "E", "R", "R", "O", "R", ":", " ", "5", "0", "0", "]">>

RespErrorPrefix == <<"E", "r", "r", "o", "r", ":", " ", "4", "2", "9">>

RespTimeout == <<"R", "e", "a", "d", " ", "t", "i", "m", "e", "d", " ", "o", "u", "t">>

\* What gemini_bridge.analyze_document_chunk can answer: prose, or one of the
\* provider error strings ("[ERROR: ...]", "Error: ...", a timeout message).
PrimaryErrorResponses == {RespBracket, RespErrorPrefix, RespTimeout}

PrimaryResponses == {RespOk} \cup PrimaryErrorResponses

\* response.choices[0].message.content of the secondary, with the padding a
\* chat model may put around its answer.
RespChat == <<" ", "S", "u", "m", ".", "\n">>

\* f"Error: {str(e)}"
RespChatError == <<"E", "r", "r", "o", "r", ":", " ", "d", "o", "w", "n">>

\* What query_chatgpt can return.
SecondaryResponses == {RespChat, RespChatError}

EmptyReflection ==
    [symbolic_terms |-> <<>>, emotions |-> <<>>, structure |-> "", meaning |-> ""]

SomeReflection ==
    [symbolic_terms |-> <<"wrench">>, emotions |-> <<"care">>,
     structure |-> "procedural", meaning |-> "maintenance as stewardship"]

\* What reflect_valon can return: a reflection record, empty on failure.
Reflections == {EmptyReflection, SomeReflection}

NoUid == <<>>

\* What add_memory_node can return: no uid, or the uid of the new node.
MemoryUids == {NoUid, <<"uid">>}

\* ----------------------------------------------------------------- inputs
Alphabet == {"a", "b"}

Unreadable == [readable |-> FALSE, pages |-> <<>>]

\* Readable PDFs of at most np pages whose page texts have at most len
\* characters, and a PDF on which the reader raises.
PDFsOver(A, np, len) ==
    {[readable |-> TRUE, pages |-> ps] : ps \in SeqsUpTo(SeqsUpTo(A, len), np)}
      \cup {Unreadable}

PDFsUpTo(np, len) == PDFsOver(Alphabet, np, len)

LongPage(k) == [i \in 1..k |-> IF i % 3 = 0 THEN "b" ELSE "a"]

\* One-page PDFs whose extracted text has 2500, 2800, 3000 and 4500 characters.
LongPDFs == {[readable |-> TRUE, pages |-> <<LongPage(k)>>] : k \in {2483, 2783, 2983, 4483}}

FileA == <<"a", ".", "p", "d", "f">>

FileB == <<"b", ".", "p", "d", "f">>

FileNames == {FileA, FileB}

DotPdf == <<".", "p", "d", "f">>

GeminiSuffix == <<"_", "g", "e", "m", "i", "n", "i", ".", "j", "s", "o", "n">>

JsonSuffix == <<".", "j", "s", "o", "n">>

\* f"{filename.replace('.pdf', '')}_gemini.json", the name used in MODI_DIR
\* and in VALON_DIR.
OutputName(f) == Replace(f, DotPdf) \o GeminiSuffix

ScaledChunkSizes == {2, 3, 7} \cup (16..22)

\* Valid chunker parameters: 0 < overlap < chunk_size.
ScaledParams == {<<cs, ov>> : cs \in ScaledChunkSizes, ov \in 1..22} \cap
                {pr \in (1..22) \X (1..22) : pr[2] < pr[1]}

ChunkParams == ScaledParams \cup {<<ChunkSize, Overlap>>}

\* Parameters under which the short documents of DocPDFs split into one,
\* two or three chunks.
DocParams == {<<20, 5>>, <<19, 1>>}

BatchParams == {<<ChunkSize, Overlap>>}

\* ------------------------------------------------------------------ state
Procs == {1, 2}

VARIABLES
    chunk_size, overlap,   \* the chunker parameters of process_pdf
    pc,                    \* pc[p]: where run p stands in process_pdf
    filename, link,        \* the arguments of process_pdf
    content,               \* result of extract_text_from_pdf
    chunks, summaries,     \* the two lists process_pdf builds
    calls,                 \* provider calls made for the current document
    reflection, entry,     \* locals of process_pdf
    archive,               \* local `archive` of update_valon_archive
    result,                \* return value of process_pdf
    archiveFile,           \* VALON_ARCHIVE on disk
    errorLog,              \* entropy_logs/processing_errors.json
    modiFiles, valonFiles, \* memory_vault/modi/*, memory_vault/valon/*
    clock,                 \* datetime.now()
    docs,                  \* number of process_pdf calls started
    resultFiles,           \* the result files under memory_vault
    geminiFile,            \* gemini_test_results.json
    cpc,                   \* where the comparison run stands
    mistral_files,         \* local list of the batch comparator
    gemini_results,        \* local: the loaded gemini_test_results.json
    cindex,                \* entries of gemini_results already visited
    report,                \* the lines printed by the comparison run
    cret                   \* <<r>> once compare_results has returned r

locals == <<pc, filename, link, content, chunks, summaries, calls, reflection,
            entry, archive, result>>

files == <<archiveFile, errorLog, modiFiles, valonFiles>>

comparison == <<resultFiles, geminiFile, cpc, mistral_files, gemini_results,
                cindex, report, cret>>

pipeline == <<chunk_size, overlap, locals, files, clock, docs>>

vars == <<pipeline, comparison>>

NoEntry ==
    [source |-> <<>>, timestamp |-> 0, content_sample |-> <<>>,
     full_content_length |-> 0, summary |-> <<>>,
     valon_reflection |-> EmptyReflection, processor |-> "", hybrid_uid |-> NoUid]

\* {"symbolic_events": [], "drift_logs": [], "reasoning_blends": [], "dream_logs": []}
DefaultArchive ==
    [symbolic_events |-> <<>>, drift_logs |-> <<>>, reasoning_blends |-> <<>>,
     dream_logs |-> <<>>]

\* No file at the path.
AbsentFile == [exists |-> FALSE, complete |-> FALSE, doc |-> DefaultArchive]

\* A file opened with mode "w" and not yet written: zero bytes.
TruncatedFile == [exists |-> TRUE, complete |-> FALSE, doc |-> DefaultArchive]

\* A file holding the complete JSON document doc.
WrittenFile(doc) == [exists |-> TRUE, complete |-> TRUE, doc |-> doc]

\* The archive an earlier run left after processing one document at time 0.
PriorArchive ==
    [symbolic_events |-> <<[source |-> FileA, reflected |-> SomeReflection,
                            timestamp |-> 0]>>,
     drift_logs |-> <<>>, reasoning_blends |-> <<>>, dream_logs |-> <<>>]

\* ------------------------------------------------- compared result files
\* JSON values as json.load returns them; a dict is the sequence of its
\* <<key, value>> items in insertion order.
JNull == [t |-> "null"]

JInt(n) == [t |-> "int", n |-> n]

JStr(s) == [t |-> "str", s |-> s]

JList(l) == [t |-> "list", items |-> l]

JDict(kv) == [t |-> "dict", items |-> kv]

HasKey(o, k) == \E i \in 1..Len(o.items) : o.items[i][1] = k

\* o.get(k, default) for a dict o
Get(o, k, default) ==
    IF HasKey(o, k)
    THEN o.items[CHOOSE i \in 1..Len(o.items) : o.items[i][1] = k][2]
    ELSE default

\* len(v) raises TypeError for None and for numbers.
LenRaises(v) == v.t \in {"null", "int"}

\* len(v)
PyLen(v) == IF v.t = "str" THEN Len(v.s) ELSE Len(v.items)

RECURSIVE PyRepr(_)
\* repr(v), which str(v) returns for a dict.
PyRepr(v) ==
    CASE v.t = "null" -> <<"N", "o", "n", "e">>
      [] v.t = "int" -> IntToStr(v.n)
      [] v.t = "str" -> <<"'">> \o v.s \o <<"'">>
      [] v.t = "list" ->
            <<"[">> \o Join(<<",", " ">>,
                            [i \in 1..Len(v.items) |-> PyRepr(v.items[i])])
                    \o <<"]">>
      [] v.t = "dict" ->
            <<"{">> \o Join(<<",", " ">>,
                            [i \in 1..Len(v.items) |->
                                <<"'">> \o v.items[i][1] \o <<"'", ":", " ">>
                                        \o PyRepr(v.items[i][2])])
                    \o <<"}">>

KSource == <<"s", "o", "u", "r", "c", "e">>

KContentLength == <<"c", "o", "n", "t", "e", "n", "t", "_", "l", "e", "n", "g", "t", "h">>

KAnalysis == <<"a", "n", "a", "l", "y", "s", "i", "s">>

KSummary == <<"s", "u", "m", "m", "a", "r", "y">>

KValonReflection == <<"v", "a", "l", "o", "n", "_", "r", "e", "f", "l", "e", "c", "t", "i", "o", "n">>

KProcessor == <<"p", "r", "o", "c", "e", "s", "s", "o", "r">>

KSymbolicTerms == <<"s", "y", "m", "b", "o", "l", "i", "c", "_", "t", "e", "r", "m", "s">>

KEmotions == <<"e", "m", "o", "t", "i", "o", "n", "s">>

Unknown == <<"u", "n", "k", "n", "o", "w", "n">>

Mistral == <<"m", "i", "s", "t", "r", "a", "l">>

Gemini == <<"g", "e", "m", "i", "n", "i">>

Ellipsis == <<".", ".", ".">>

SampleLen == 200

\* os.walk("memory_vault") and os.path.join(root, file)
MemoryVault == <<"m", "e", "m", "o", "r", "y", "_", "v", "a", "u", "l", "t">>

VaultPath(name) == MemoryVault \o <<"/">> \o name

\* The result of the other pipeline for the document f.
BaselineName(f) == Replace(f, DotPdf) \o JsonSuffix

\* The names of the result files the vault can hold: for a.pdf the results
\* of both pipelines, for b.pdf the baseline.
ResultNames == {BaselineName(FileA), BaselineName(FileB), OutputName(FileA)}

ResultPaths == {VaultPath(name) : name \in ResultNames}

\* A result record without "processor", with a reflection dict.
ResultRecord ==
    JDict(<< <<KSummary, JStr(<<"S", "u", "m", ".">>)>>,
             <<KValonReflection,
               JDict(<< <<KSymbolicTerms, JList(<<JStr(<<"x">>)>>)>>,
                        <<KEmotions, JList(<<>>)>> >>)>> >>)

\* A result record whose summary is null.
NullSummaryRecord ==
    JDict(<< <<KProcessor, JStr(Mistral)>>, <<KSummary, JNull>> >>)

\* A JSON document that is not an object.
NotARecord == JList(<<>>)

ResultDocs == {ResultRecord, NullSummaryRecord, NotARecord}

\* What process_pdf_with_gemini returns when extraction failed (line 45).
ErrorEntry == JStr(<<"[", "E", "R", "R", "O", "R", ":", " ", "x", "]">>)

\* What process_pdf_with_gemini returns for the document f (lines 90-95).
RecordEntry(f) ==
    JDict(<< <<KSource, JStr(f)>>, <<KContentLength, JInt(18)>>,
             <<KAnalysis, JStr(<<"A", "n", ".">>)>>,
             <<KValonReflection, JStr(<<"R", "e", "f", "l", ".">>)>> >>)

GeminiEntries == {ErrorEntry} \cup {RecordEntry(f) : f \in FileNames}

\* The lists main of test_gemini_pdf.py can dump (lines 123-138).
GeminiResultLists == {JList(l) : l \in SeqsUpTo(GeminiEntries, MaxEntries)}

\* No comparison is running and the vault holds no result files.
ComparisonIdle ==
    /\ resultFiles = [path \in ResultPaths |-> AbsentFile]
    /\ geminiFile = AbsentFile
    /\ cpc = "idle"
    /\ mistral_files = <<>>
    /\ gemini_results = JList(<<>>)
    /\ cindex = 0
    /\ report = <<>>
    /\ cret = <<>>

\* ------------------------------------------------------------------- init
InitPipeline(params, archiveFiles) ==
    /\ \E pr \in params : chunk_size = pr[1] /\ overlap = pr[2]
    /\ pc = [p \in Procs |-> "idle"]
    /\ filename = [p \in Procs |-> <<>>]
    /\ link = [p \in Procs |-> FALSE]
    /\ content = [p \in Procs |-> NoneContent]
    /\ chunks = [p \in Procs |-> <<>>]
    /\ summaries = [p \in Procs |-> <<>>]
    /\ calls = [p \in Procs |-> <<>>]
    /\ reflection = [p \in Procs |-> EmptyReflection]
    /\ entry = [p \in Procs |-> NoEntry]
    /\ archive = [p \in Procs |-> DefaultArchive]
    /\ result = [p \in Procs |-> FALSE]
    /\ archiveFile \in archiveFiles
    /\ errorLog = <<>>
    /\ modiFiles = <<>>
    /\ valonFiles = <<>>
    /\ clock = IF archiveFile.exists THEN 1 ELSE 0
    /\ docs = 0

InitWith(params, archiveFiles) ==
    /\ InitPipeline(params, archiveFiles)
    /\ ComparisonIdle

Init == InitWith(BatchParams, {AbsentFile})

InitDoc == InitWith(DocParams, {AbsentFile})

InitChunk == InitWith(ChunkParams, {AbsentFile})

\* Two runs start on a fresh vault or on the vault an earlier run left.
InitConc == InitWith(BatchParams, {AbsentFile, WrittenFile(PriorArchive)})

\* ------------------------------------------------------------ file helpers
\* The directory fs after path has been (over)written with data.
WriteFile(fs, path, data) ==
    [x \in (DOMAIN fs) \cup {path} |-> IF x = path THEN data ELSE fs[x]]

\* ---------------------------------------------------------------- logging
\* Mutant: the log is rewritten with the new record only.
LoggedErrorsFresh(logs, reason, f, now) ==
    <<[timestamp |-> now, source |-> f, reason |-> reason, flag |-> "processing_error"]>>

\* log_error: the log after `logs.append(entry)` and the rewrite of the file.
LoggedErrors(logs, reason, f, now) ==
    Append(logs, [timestamp |-> now, source |-> f, reason |-> reason,
                  flag |-> "processing_error"])

\* ------------------------------------------------------------- summaries
ChunkHeaderOpen == <<"-", "-", "-", " ", "C", "h", "u", "n", "k", " ">>

ChunkHeaderClose == <<" ", "-", "-", "-", "\n">>

\* Mutant: the header carries the 0-based index.
SummaryRecordZeroBased(i, response) ==
    ChunkHeaderOpen \o IntToStr(i) \o ChunkHeaderClose \o Strip(response)

\* f"--- Chunk {i+1} ---\n{response.strip()}"  (i is the 0-based index)
SummaryRecord(i, response) ==
    ChunkHeaderOpen \o IntToStr(i + 1) \o ChunkHeaderClose \o Strip(response)

\* Whether process_pdf queries the secondary after the primary answered r1.
NeedsFallback(r1) == IsErrorResponse(r1)

\* Mutant: an error answer of the secondary is dropped and the primary's kept.
KeptResponseUnlessError(r1, r2) ==
    IF NeedsFallback(r1) /\ ~IsErrorResponse(r2) THEN r2 ELSE r1

\* The response process_pdf keeps for a chunk: the secondary's answer r2
\* replaces the primary's answer r1 when r1 carries an error marker.
KeptResponse(r1, r2) == IF NeedsFallback(r1) THEN r2 ELSE r1

PrimaryCall(i, chunk, r) ==
    [provider |-> "primary", index |-> i, chunk |-> chunk, response |-> r]

SecondaryCall(i, chunk, r) ==
    [provider |-> "secondary", index |-> i, chunk |-> chunk, response |-> r]

ReflectionCall(text) ==
    [provider |-> "reflection", index |-> 0, chunk |-> text, response |-> <<>>]

\* ---------------------------------------------------------------- archive
\* The record update_valon_archive appends.
SymbolicEvent(f, refl, now) == [source |-> f, reflected |-> refl, timestamp |-> now]

\* Mutant: an earlier event of the same source is replaced, not kept.
AppendEventDedup(arch, ev) ==
    [arch EXCEPT !.symbolic_events =
        Append(SelectSeq(arch.symbolic_events, LAMBDA e : e.source # ev.source), ev)]

\* archive["symbolic_events"].append({...})
AppendEvent(arch, ev) ==
    [arch EXCEPT !.symbolic_events = Append(arch.symbolic_events, ev)]

\* Mutant: the default archive has the event list only.
LoadArchiveEventsOnly(file) ==
    IF file.exists THEN file.doc ELSE [symbolic_events |-> <<>>]

\* The archive update_valon_archive starts from: the file's document when
\* the file exists, the four empty sequences otherwise.
LoadArchive(file) == IF file.exists THEN file.doc ELSE DefaultArchive

\* ---------------------------------------------------------------- actions
\* process_pdf up to and including the chunk loop: extraction, the
\* `if not content` exit through log_error, and the building of `chunks`.
ProcessPdfStart(p, f, lk, pdf) ==
    /\ pc[p] = "idle"
    /\ docs' = docs + 1
    /\ filename' = [filename EXCEPT ![p] = f]
    /\ link' = [link EXCEPT ![p] = lk]
    /\ LET c == extract_text_from_pdf(pdf) IN
       /\ content' = [content EXCEPT ![p] = c]
       /\ IF Falsy(c)
          THEN /\ errorLog' = LoggedErrors(errorLog, "Failed to extract text", f, clock)
               /\ clock' = clock + 1
               /\ result' = [result EXCEPT ![p] = FALSE]
               /\ pc' = [pc EXCEPT ![p] = "failed"]
               /\ UNCHANGED chunks
          ELSE /\ chunks' = [chunks EXCEPT ![p] = MakeChunks(c.text, chunk_size, overlap)]
               /\ pc' = [pc EXCEPT ![p] = "summarize"]
               /\ UNCHANGED <<errorLog, clock, result>>
    /\ UNCHANGED <<comparison, chunk_size, overlap, summaries, calls, reflection, entry,
                   archive, archiveFile, modiFiles, valonFiles>>

\* One iteration of `for i, chunk in enumerate(chunks)`.
SummarizeChunk(p) ==
    /\ pc[p] = "summarize"
    /\ Len(summaries[p]) < Len(chunks[p])
    /\ LET i == Len(summaries[p])
           chunk == chunks[p][i + 1]
       IN \E r1 \in PrimaryResponses :
            \E r2 \in SecondaryResponses :
              /\ calls' = [calls EXCEPT ![p] =
                     IF NeedsFallback(r1)
                     THEN calls[p] \o <<PrimaryCall(i, chunk, r1), SecondaryCall(i, chunk, r2)>>
                     ELSE Append(calls[p], PrimaryCall(i, chunk, r1))]
              /\ summaries' = [summaries EXCEPT ![p] =
                     Append(summaries[p], SummaryRecord(i, KeptResponse(r1, r2)))]
    /\ UNCHANGED <<comparison, chunk_size, overlap, pc, filename, link, content, chunks,
                   reflection, entry, archive, result, files, clock, docs>>

\* After the loop: the join, reflect_valon, the entry, and the link /
\* add_memory_node block.  assign_uid is not defined in the module, so a
\* run with link=True ends here with a NameError.
Reflect(p) ==
    /\ pc[p] = "summarize"
    /\ Len(summaries[p]) = Len(chunks[p])
    /\ \E refl \in Reflections, uid \in MemoryUids :
         /\ reflection' = [reflection EXCEPT ![p] = refl]
         /\ calls' = [calls EXCEPT ![p] = Append(calls[p], ReflectionCall(content[p].text))]
         /\ entry' = [entry EXCEPT ![p] =
               [source |-> filename[p],
                timestamp |-> clock,
                content_sample |-> Slice(content[p].text, 0, ContentSampleLen),
                full_content_length |-> Len(content[p].text),
                summary |-> Join(<<"\n", "\n">>, summaries[p]),
                valon_reflection |-> refl,
                processor |-> "gemini",
                hybrid_uid |-> IF link[p] THEN NoUid ELSE uid]]
    /\ clock' = clock + 1
    /\ pc' = [pc EXCEPT ![p] = IF link[p] THEN "raised" ELSE "write_modi"]
    /\ UNCHANGED <<comparison, chunk_size, overlap, filename, link, content, chunks,
                   summaries, archive, result, files, docs>>

\* with open(modi_path, "w") as f: json.dump(entry, f, indent=2)
WriteModi(p) ==
    /\ pc[p] = "write_modi"
    /\ modiFiles' = WriteFile(modiFiles, OutputName(filename[p]), entry[p])
    /\ pc' = [pc EXCEPT ![p] = "archive_read"]
    /\ UNCHANGED <<comparison, chunk_size, overlap, filename, link, content, chunks,
                   summaries, calls, reflection, entry, archive, result,
                   archiveFile, errorLog, valonFiles, clock, docs>>

\* update_valon_archive, lines 79-88: load or default, then append in memory.
\* json.load of a file that does not hold a complete document raises.
ArchiveRead(p) ==
    /\ pc[p] = "archive_read"
    /\ IF archiveFile.exists /\ ~archiveFile.complete
       THEN /\ pc' = [pc EXCEPT ![p] = "raised"]
            /\ UNCHANGED <<archive, clock>>
       ELSE /\ archive' = [archive EXCEPT ![p] =
                  AppendEvent(LoadArchive(archiveFile),
                              SymbolicEvent(filename[p], reflection[p], clock))]
            /\ clock' = clock + 1
            /\ pc' = [pc EXCEPT ![p] = "archive_open"]
    /\ UNCHANGED <<comparison, chunk_size, overlap, filename, link, content, chunks,
                   summaries, calls, reflection, entry, result, files, docs>>

\* update_valon_archive, line 89: open(VALON_ARCHIVE, "w") truncates the file.
ArchiveOpen(p) ==
    /\ pc[p] = "archive_open"
    /\ archiveFile' = TruncatedFile
    /\ pc' = [pc EXCEPT ![p] = "archive_dump"]
    /\ UNCHANGED <<comparison, chunk_size, overlap, filename, link, content, chunks,
                   summaries, calls, reflection, entry, archive, result,
                   errorLog, modiFiles, valonFiles, clock, docs>>

\* Mutant: json.dumps in place of json.dump, nothing reaches the file.
ArchiveDumpNothing(p) ==
    /\ pc[p] = "archive_dump"
    /\ pc' = [pc EXCEPT ![p] = "write_valon"]
    /\ UNCHANGED <<comparison, chunk_size, overlap, filename, link, content, chunks,
                   summaries, calls, reflection, entry, archive, result,
                   files, clock, docs>>

\* update_valon_archive, line 90: json.dump(archive, f) and the close.
ArchiveDump(p) ==
    /\ pc[p] = "archive_dump"
    /\ archiveFile' = WrittenFile(archive[p])
    /\ pc' = [pc EXCEPT ![p] = "write_valon"]
    /\ UNCHANGED <<comparison, chunk_size, overlap, filename, link, content, chunks,
                   summaries, calls, reflection, entry, archive, result,
                   errorLog, modiFiles, valonFiles, clock, docs>>

\* The reflection summary file and `return True`.
WriteValon(p) ==
    /\ pc[p] = "write_valon"
    /\ valonFiles' = WriteFile(valonFiles, OutputName(filename[p]),
                               [summary |-> entry[p].summary, reflection |-> reflection[p]])
    /\ result' = [result EXCEPT ![p] = TRUE]
    /\ pc' = [pc EXCEPT ![p] = "done"]
    /\ UNCHANGED <<comparison, chunk_size, overlap, filename, link, content, chunks,
                   summaries, calls, reflection, entry, archive,
                   archiveFile, errorLog, modiFiles, clock, docs>>

Terminal == {"done", "failed", "raised", "crashed"}

\* process_pdf has returned (or its exception has ended the run); the caller
\* moves on and the locals of the call are gone.
Return(p) ==
    /\ pc[p] \in Terminal
    /\ docs < MaxDocs
    /\ pc' = [pc EXCEPT ![p] = "idle"]
    /\ filename' = [filename EXCEPT ![p] = <<>>]
    /\ link' = [link EXCEPT ![p] = FALSE]
    /\ content' = [content EXCEPT ![p] = NoneContent]
    /\ chunks' = [chunks EXCEPT ![p] = <<>>]
    /\ summaries' = [summaries EXCEPT ![p] = <<>>]
    /\ calls' = [calls EXCEPT ![p] = <<>>]
    /\ reflection' = [reflection EXCEPT ![p] = EmptyReflection]
    /\ entry' = [entry EXCEPT ![p] = NoEntry]
    /\ archive' = [archive EXCEPT ![p] = DefaultArchive]
    /\ result' = [result EXCEPT ![p] = FALSE]
    /\ UNCHANGED <<comparison, chunk_size, overlap, files, clock, docs>>

\* The process is killed (or the write fails) inside update_valon_archive:
\* before the open of line 89, or between the open and the end of the dump.
Crash(p) ==
    /\ pc[p] \in {"archive_open", "archive_dump"}
    /\ pc' = [pc EXCEPT ![p] = "crashed"]
    /\ UNCHANGED <<comparison, chunk_size, overlap, filename, link, content, chunks,
                   summaries, calls, reflection, entry, archive, result,
                   files, clock, docs>>

\* The documents of a directory run: unreadable, without text, one short page.
BatchPDFs == PDFsOver({"a"}, 1, 1)

OnePagePDF == [readable |-> TRUE, pages |-> <<<<"a">>>>]

DocPDFs == PDFsOver({"a"}, MaxDocPages, MaxDocPageLen)

ChunkPDFs ==
    IF chunk_size = ChunkSize THEN LongPDFs \cup PDFsUpTo(1, 1)
    ELSE PDFsUpTo(MaxPages, MaxPageLen)

\* process_directory / a later run of the program calls process_pdf.
Start(p) ==
    /\ docs < MaxDocs
    /\ \E f \in FileNames, lk \in BOOLEAN, pdf \in BatchPDFs :
         ProcessPdfStart(p, f, lk, pdf)

\* process_specific_file calls process_pdf once.
StartDoc ==
    /\ docs = 0
    /\ \E lk \in BOOLEAN, pdf \in DocPDFs : ProcessPdfStart(1, FileA, lk, pdf)

\* process_specific_file of one of two runs started side by side.
StartConc(p) ==
    \E f \in FileNames : ProcessPdfStart(p, f, FALSE, OnePagePDF)

StartChunking ==
    /\ docs = 0
    /\ \E pdf \in ChunkPDFs : ProcessPdfStart(1, FileA, FALSE, pdf)

\* One run of the program over a directory, documents one after the other.
Next ==
    \/ Start(1)
    \/ SummarizeChunk(1)
    \/ Reflect(1)
    \/ WriteModi(1)
    \/ ArchiveRead(1)
    \/ ArchiveOpen(1)
    \/ ArchiveDump(1)
    \/ WriteValon(1)
    \/ Return(1)

Spec == Init /\ [][Next]_vars

\* One document, from the call of process_pdf to its end.
NextDoc ==
    \/ StartDoc
    \/ SummarizeChunk(1)
    \/ Reflect(1)
    \/ WriteModi(1)
    \/ ArchiveRead(1)
    \/ ArchiveOpen(1)
    \/ ArchiveDump(1)
    \/ WriteValon(1)

SpecDoc == InitDoc /\ [][NextDoc]_vars

\* The chunker on a wide range of texts and parameters.
NextChunk == StartChunking

SpecChunk == InitChunk /\ [][NextChunk]_vars

\* Two runs of the program at the same time, one document each.
NextConc ==
    \E p \in Procs :
        \/ StartConc(p)
        \/ SummarizeChunk(p)
        \/ Reflect(p)
        \/ WriteModi(p)
        \/ ArchiveRead(p)
        \/ ArchiveOpen(p)
        \/ ArchiveDump(p)
        \/ WriteValon(p)

SpecConc == InitConc /\ [][NextConc]_vars

\* One run that can be killed at any point, and the runs after it.
NextCrash ==
    \/ Next
    \/ Crash(1)

SpecCrash == Init /\ [][NextCrash]_vars

\* ------------------------------------------------------- result comparison
Exists(fs, path) == path \in DOMAIN fs /\ fs[path].exists

\* open(path) or json.load raises: no file, or not a complete JSON document.
LoadRaises(fs, path) == ~Exists(fs, path) \/ ~fs[path].complete

\* print(f"[ERROR] Failed to compare results: {e}"); return False
CompareFailed(lines) ==
    [ret |-> FALSE, lines |-> Append(lines, [line |-> "compare_error"])]

\* compare_results(original_file, gemini_file) of pdf_ingestor_gemini.py on
\* the files fs: the lines it prints and the value it returns.  Every
\* exception of the body is caught by the except clause of line 211.
compare_results(fs, original_file, gemini_file) ==
    IF LoadRaises(fs, original_file) \/ LoadRaises(fs, gemini_file)
    THEN CompareFailed(<<>>)
    ELSE
    LET original_data == fs[original_file].doc
        gemini_data == fs[gemini_file].doc
        l1 == <<[line |-> "comparison_header"]>>
    IN
    IF original_data.t # "dict" THEN CompareFailed(l1)
    ELSE
    LET l2 == Append(l1, [line |-> "original_processor",
                          value |-> Get(original_data, KProcessor, JStr(Mistral))])
    IN
    IF gemini_data.t # "dict" THEN CompareFailed(l2)
    ELSE
    LET l3 == Append(l2, [line |-> "gemini_processor",
                          value |-> Get(gemini_data, KProcessor, JStr(Gemini))])
        original_summary == Get(original_data, KSummary, JStr(<<>>))
        gemini_summary == Get(gemini_data, KSummary, JStr(<<>>))
    IN
    IF LenRaises(original_summary) \/ LenRaises(gemini_summary)
    THEN CompareFailed(l3)
    ELSE
    LET l4 == Append(l3, [line |-> "summary_length",
                          original |-> PyLen(original_summary),
                          gemini |-> PyLen(gemini_summary)])
        original_valon == Get(original_data, KValonReflection, JDict(<<>>))
        gemini_valon == Get(gemini_data, KValonReflection, JDict(<<>>))
        l5 == Append(l4, [line |-> "valon_header"])
    IN
    IF original_valon.t # "dict" THEN CompareFailed(l5)
    ELSE
    LET l6 == Append(l5, [line |-> "original_symbolic_terms",
                          value |-> Get(original_valon, KSymbolicTerms, JList(<<>>))])
    IN
    IF gemini_valon.t # "dict" THEN CompareFailed(l6)
    ELSE
    [ret |-> TRUE,
     lines |-> l6 \o
        <<[line |-> "gemini_symbolic_terms",
           value |-> Get(gemini_valon, KSymbolicTerms, JList(<<>>))],
          [line |-> "original_emotions",
           value |-> Get(original_valon, KEmotions, JList(<<>>))],
          [line |-> "gemini_emotions",
           value |-> Get(gemini_valon, KEmotions, JList(<<>>))]>>]

\* The paths --compare is given: a result of this pipeline, or a baseline.
CompareArgs == {VaultPath(OutputName(FileA)), VaultPath(BaselineName(FileB))}

\* args.compare.replace('_gemini.json', '.json')
OriginalFile(arg) == ReplaceWith(arg, GeminiSuffix, JsonSuffix)

\* The compare mode of main (lines 227-233).
MainCompare(arg) ==
    /\ cpc = "idle"
    /\ LET original_file == OriginalFile(arg)
       IN IF Exists(resultFiles, original_file) /\ Exists(resultFiles, arg)
          THEN LET r == compare_results(resultFiles, original_file, arg)
               IN /\ report' = r.lines
                  /\ cret' = <<r.ret>>
          ELSE /\ report' = <<[line |-> "missing_files",
                               original |-> original_file, gemini |-> arg]>>
               /\ cret' = <<>>
    /\ cpc' = "returned"
    /\ UNCHANGED <<pipeline, resultFiles, geminiFile, mistral_files,
                   gemini_results, cindex>>

\* All orders in which os.walk can list the files of S.
Orders(S) ==
    {q \in [1..Cardinality(S) -> S] :
        \A i, j \in 1..Cardinality(S) : i # j => q[i] # q[j]}

\* The files the walk of lines 16-19 keeps.
MistralNames(fs) ==
    {name \in ResultNames :
        /\ Exists(fs, VaultPath(name))
        /\ EndsWith(name, JsonSuffix)
        /\ ~EndsWith(name, GeminiSuffix)}

\* compare_results() of python_tests/compare_results.py up to its loop
\* (lines 6-31).
BatchCompareStart ==
    /\ cpc = "idle"
    /\ IF ~geminiFile.exists
       THEN /\ report' = <<[line |-> "title"], [line |-> "gemini_not_found"]>>
            /\ cpc' = "returned"
            /\ UNCHANGED <<mistral_files, gemini_results>>
       ELSE \E order \in Orders({VaultPath(name) : name \in MistralNames(resultFiles)}) :
            /\ mistral_files' = order
            /\ IF order = <<>>
               THEN /\ report' = <<[line |-> "title"], [line |-> "no_mistral_results"]>>
                    /\ cpc' = "returned"
                    /\ UNCHANGED gemini_results
               ELSE IF ~geminiFile.complete
               THEN /\ report' = <<[line |-> "title"],
                                   [line |-> "found_mistral", n |-> Len(order)]>>
                    /\ cpc' = "raised"
                    /\ UNCHANGED gemini_results
               ELSE /\ gemini_results' = geminiFile.doc
                    /\ report' = <<[line |-> "title"],
                                   [line |-> "found_mistral", n |-> Len(order)],
                                   [line |-> "found_gemini",
                                    n |-> PyLen(geminiFile.doc)]>>
                    /\ cpc' = "loop"
    /\ UNCHANGED <<pipeline, resultFiles, geminiFile, cindex, cret>>

\* Lines 42-46: the first file whose path contains the stem, <<>> for None.
MatchingMistral(paths, stem) ==
    LET hits == {i \in 1..Len(paths) : Contains(paths[i], stem)}
    IN IF hits = {} THEN <<>>
       ELSE paths[CHOOSE i \in hits : \A j \in hits : i <= j]

\* print(f"Error comparing {source_name}: {e}") of line 81
EntryFailed(lines, source_name) ==
    Append(lines, [line |-> "entry_error", source |-> source_name])

\* The try block of lines 49-81 for the entry gemini_result and the file
\* matching_mistral: the lines printed, the exception being caught.
CompareWithMistral(fs, gemini_result, source_name, matching_mistral) ==
    IF LoadRaises(fs, matching_mistral) THEN EntryFailed(<<>>, source_name)
    ELSE
    LET mistral_data == fs[matching_mistral].doc
        l1 == <<[line |-> "found_matching", path |-> matching_mistral]>>
        analysis == Get(gemini_result, KAnalysis, JStr(<<>>))
    IN
    IF LenRaises(analysis) \/ mistral_data.t # "dict"
    THEN EntryFailed(l1, source_name)
    ELSE
    LET summary == Get(mistral_data, KSummary, JStr(<<>>))
    IN
    IF LenRaises(summary) THEN EntryFailed(l1, source_name)
    ELSE
    LET l2 == Append(l1, [line |-> "analysis_length",
                          gemini |-> PyLen(analysis), mistral |-> PyLen(summary)])
        gemini_valon == Get(gemini_result, KValonReflection, JStr(<<>>))
        loaded_valon == Get(mistral_data, KValonReflection, JStr(<<>>))
        mistral_valon == IF loaded_valon.t = "dict"
                         THEN JStr(PyRepr(loaded_valon)) ELSE loaded_valon
    IN
    IF LenRaises(gemini_valon) \/ LenRaises(mistral_valon)
    THEN EntryFailed(l2, source_name)
    ELSE
    LET l3 == l2 \o <<[line |-> "valon_length",
                       gemini |-> PyLen(gemini_valon),
                       mistral |-> PyLen(mistral_valon)],
                      [line |-> "gemini_sample_header"]>>
    IN
    IF analysis.t # "str" THEN EntryFailed(l3, source_name)
    ELSE
    LET l4 == l3 \o <<[line |-> "gemini_sample",
                       text |-> Slice(analysis.s, 0, SampleLen) \o Ellipsis],
                      [line |-> "mistral_sample_header"]>>
    IN
    IF summary.t # "str" THEN EntryFailed(l4, source_name)
    ELSE Append(l4, [line |-> "mistral_sample",
                     text |-> Slice(summary.s, 0, SampleLen) \o Ellipsis])

\* One iteration of the loop of lines 34-83.
BatchCompareEntry ==
    /\ cpc = "loop"
    /\ cindex < Len(gemini_results.items)
    /\ LET gemini_result == gemini_results.items[cindex + 1]
       IN IF gemini_result.t # "dict"
          THEN /\ cpc' = "loop"
               /\ UNCHANGED report
          ELSE
          LET source_name == Get(gemini_result, KSource, JStr(Unknown))
              comparing == Append(report, [line |-> "comparing",
                                           source |-> source_name])
          IN IF source_name.t # "str"
             THEN /\ cpc' = "raised"
                  /\ report' = comparing
             ELSE
             LET matching_mistral ==
                    MatchingMistral(mistral_files, Replace(source_name.s, DotPdf))
             IN /\ cpc' = "loop"
                /\ report' =
                     IF matching_mistral # <<>>
                     THEN comparing \o CompareWithMistral(resultFiles, gemini_result,
                                                         source_name, matching_mistral)
                     ELSE Append(comparing, [line |-> "no_match",
                                             source |-> source_name])
    /\ cindex' = cindex + 1
    /\ UNCHANGED <<pipeline, resultFiles, geminiFile, mistral_files,
                   gemini_results, cret>>

\* Lines 85-86, after the last entry.
BatchCompareEnd ==
    /\ cpc = "loop"
    /\ cindex = Len(gemini_results.items)
    /\ report' = report \o <<[line |-> "comparison_complete"],
                             [line |-> "delete_reminder"]>>
    /\ cpc' = "returned"
    /\ UNCHANGED <<pipeline, resultFiles, geminiFile, mistral_files,
                   gemini_results, cindex, cret>>

\* The states a result file can be in: absent, cut short, or complete.
ResultFileStates == {AbsentFile, TruncatedFile} \cup {WrittenFile(d) : d \in ResultDocs}

GeminiFileStates ==
    {AbsentFile, TruncatedFile} \cup {WrittenFile(l) : l \in GeminiResultLists}

\* A comparison run starts on a vault left by earlier runs of both pipelines.
InitCompare ==
    /\ InitPipeline(BatchParams, {AbsentFile})
    /\ resultFiles \in [ResultPaths -> ResultFileStates]
    /\ geminiFile \in GeminiFileStates
    /\ cpc = "idle"
    /\ mistral_files = <<>>
    /\ gemini_results = JList(<<>>)
    /\ cindex = 0
    /\ report = <<>>
    /\ cret = <<>>

\* One comparison run: the compare mode of main or the batch comparator.
NextCompare ==
    \/ \E arg \in CompareArgs : MainCompare(arg)
    \/ BatchCompareStart
    \/ BatchCompareEntry
    \/ BatchCompareEnd

SpecCompare == InitCompare /\ [][NextCompare]_vars

\* ================================================================ claims
Last(q) == q[Len(q)]

Front(q) == SubSeq(q, 1, Len(q) - 1)

IsPrefix(a, b) == Len(a) <= Len(b) /\ SubSeq(b, 1, Len(a)) = a

RECURSIVE NonOverlapConcat(_, _)
\* Chunk 1 whole, then every later chunk without its first `overlap`
\* characters, concatenated in index order from chunk i on.
NonOverlapConcat(cks, i) ==
    IF i > Len(cks) THEN <<>>
    ELSE (IF i = 1 THEN cks[1] ELSE SliceFrom(cks[i], overlap))
         \o NonOverlapConcat(cks, i + 1)

\* C1: for every text and every valid (chunk_size, overlap), concatenating
\* the non-overlapping portions of the chunks in index order gives back the
\* text exactly.
C1_ChunksReconstructText ==
    pc[1] = "summarize" => NonOverlapConcat(chunks[1], 1) = content[1].text

\* C1 witness: a text cut into three or more chunks, the last one short.
C1_Witness ==
    /\ pc[1] = "summarize"
    /\ Len(chunks[1]) >= 3
    /\ Len(Last(chunks[1])) < chunk_size
    /\ Len(chunks[1][1]) = chunk_size

\* C2: a non-empty text shorter than chunk_size gives exactly one chunk,
\* equal to the whole text.
C2_ShortTextOneChunk ==
    (pc[1] = "summarize" /\ Len(content[1].text) < chunk_size)
        => chunks[1] = <<content[1].text>>

\* The calls process_pdf made for chunk index i, in order.
CallsFor(p, i) ==
    SelectSeq(calls[p], LAMBDA c : c.provider # "reflection" /\ c.index = i)

\* C3: in every iteration of the summary loop the primary is called once
\* for the chunk; if its answer carries an error marker the secondary is
\* called exactly once for the same chunk and its answer, error or not, is
\* the chunk's summary; otherwise no secondary call is made and the
\* primary's answer is the chunk's summary.
C3_SingleFallback ==
    [][(pc[1] = "summarize" /\ Len(summaries'[1]) = Len(summaries[1]) + 1) =>
        LET i == Len(summaries[1])
            new == SubSeq(calls'[1], Len(calls[1]) + 1, Len(calls'[1]))
            kept == Last(summaries'[1])
        IN /\ Len(new) >= 1
           /\ new[1].provider = "primary"
           /\ new[1].index = i
           /\ new[1].chunk = chunks[1][i + 1]
           /\ IF Contains(new[1].response, ErrorMarker)
                 \/ Contains(new[1].response, TimeoutMarker)
              THEN /\ Len(new) = 2
                   /\ new[2].provider = "secondary"
                   /\ new[2].index = i
                   /\ new[2].chunk = chunks[1][i + 1]
                   /\ kept = ChunkHeaderOpen \o IntToStr(i + 1) \o ChunkHeaderClose
                               \o Strip(new[2].response)
              ELSE /\ Len(new) = 1
                   /\ kept = ChunkHeaderOpen \o IntToStr(i + 1) \o ChunkHeaderClose
                               \o Strip(new[1].response)
      ]_vars

\* C3 witness: a finished document for which the secondary was asked and
\* answered with an error string, which is the summary kept for the chunk.
C3_Witness ==
    /\ pc[1] = "done"
    /\ \E k \in 1..Len(calls[1]) :
         /\ calls[1][k].provider = "secondary"
         /\ Contains(calls[1][k].response, ErrorMarker)
         /\ summaries[1][calls[1][k].index + 1] =
               SummaryRecord(calls[1][k].index, calls[1][k].response)

StartsWith(s, prefix) == Len(s) >= Len(prefix) /\ SubSeq(s, 1, Len(prefix)) = prefix

BracketErrorPrefix == <<"[", "E", "R", "R", "O", "R", ":">>

\* The provider error responses the interface description defines:
\* "[ERROR: ...]", "Error: ..." and a timeout indication.
IsProviderError(r) ==
    \/ StartsWith(r, BracketErrorPrefix)
    \/ StartsWith(r, ErrorMarker)
    \/ Contains(r, TimeoutMarker)

\* C4: every provider error response of the primary ("[ERROR: ...]",
\* "Error: ...", timeout) is followed by a call of the secondary for the same
\* chunk, and is never the summary kept for the chunk.
C4_EveryErrorFormFallsBack ==
    \A k \in 1..Len(calls[1]) :
        (calls[1][k].provider = "primary" /\ IsProviderError(calls[1][k].response))
          => /\ k < Len(calls[1])
             /\ calls[1][k + 1].provider = "secondary"
             /\ calls[1][k + 1].index = calls[1][k].index

\* C5: a document whose extracted text is empty is not an error: it does
\* not end in the failed state and nothing is written to the error log for
\* it.
C5_EmptyTextIsNotAnError ==
    (pc[1] # "idle" /\ ~content[1].isNone /\ content[1].text = <<>>)
        => (pc[1] # "failed" /\ errorLog = <<>>)

ArchiveKeys == {"symbolic_events", "drift_logs", "reasoning_blends", "dream_logs"}

IsSequence(x) == DOMAIN x = 1..Len(x)

Range(q) == {q[k] : k \in 1..Len(q)}

\* What is on disk before a call of update_valon_archive, read as an
\* archive: the document of the file, four empty sequences when absent.
ArchiveBefore ==
    IF archiveFile.exists THEN archiveFile.doc
    ELSE [symbolic_events |-> <<>>, drift_logs |-> <<>>,
          reasoning_blends |-> <<>>, dream_logs |-> <<>>]

InUpdate(p) == pc[p] \in {"archive_open", "archive_dump"}

\* C6: each call of update_valon_archive adds exactly one event
\* {source, reflected, timestamp} at the end of symbolic_events, keeps every
\* earlier event in place and the three other sequences as they were, also
\* when the source already has an event; nothing else changes the archive.
C6_ArchiveAppendOnly ==
    [][/\ (pc[1] = "archive_read" /\ pc'[1] = "archive_open") =>
            /\ archive'[1].symbolic_events =
                 Append(ArchiveBefore.symbolic_events,
                        [source |-> filename[1], reflected |-> reflection[1],
                         timestamp |-> clock])
            /\ archive'[1].drift_logs = ArchiveBefore.drift_logs
            /\ archive'[1].reasoning_blends = ArchiveBefore.reasoning_blends
            /\ archive'[1].dream_logs = ArchiveBefore.dream_logs
       /\ InUpdate(1) => archive'[1] = archive[1]
       /\ (pc[1] = "archive_dump" /\ pc'[1] = "write_valon") =>
            (archiveFile'.exists /\ archiveFile'.complete /\ archiveFile'.doc = archive[1])
       /\ ~InUpdate(1) => archiveFile' = archiveFile
      ]_vars

\* C6 witness: a call has just returned and the archive holds two events of
\* the same source, the earlier one first.
C6_Witness ==
    /\ pc[1] = "write_valon"
    /\ archiveFile.complete
    /\ Len(archiveFile.doc.symbolic_events) = 2
    /\ archiveFile.doc.symbolic_events[1].source = archiveFile.doc.symbolic_events[2].source
    /\ archiveFile.doc.symbolic_events[1].timestamp < archiveFile.doc.symbolic_events[2].timestamp

ValidArchive(d) ==
    /\ DOMAIN d = ArchiveKeys
    /\ \A k \in ArchiveKeys : IsSequence(d[k])

\* C7: whatever update_valon_archive writes is a valid archive with the four
\* named sequences; a call that finds no file builds an archive with one
\* symbolic event and the three other sequences empty.
C7_ArchiveAlwaysValid ==
    [][/\ (pc[1] = "archive_read" /\ pc'[1] = "archive_open") =>
            /\ ValidArchive(archive'[1])
            /\ ~archiveFile.exists =>
                 /\ Len(archive'[1].symbolic_events) = 1
                 /\ archive'[1].drift_logs = <<>>
                 /\ archive'[1].reasoning_blends = <<>>
                 /\ archive'[1].dream_logs = <<>>
       /\ (archiveFile' # archiveFile /\ archiveFile'.complete) =>
            (ValidArchive(archiveFile'.doc) /\ archiveFile'.doc = archive[1])
      ]_vars

\* C7 witness: the first call has created the file.
C7_Witness ==
    /\ pc[1] = "write_valon"
    /\ archiveFile.exists /\ archiveFile.complete
    /\ Len(archiveFile.doc.symbolic_events) = 1

\* C8: at every point the archive file holds a complete archive (or does
\* not exist yet): never an empty or partial document.
C8_ArchiveRewriteAtomic == archiveFile.exists => archiveFile.complete

NewEvent(p) == Last(archive[p].symbolic_events)

\* The two runs built their archives from the same snapshot.
SameSnapshot ==
    Front(archive[1].symbolic_events) = Front(archive[2].symbolic_events)

\* C9: when both runs have read the same snapshot and both have finished,
\* the archive on disk is the archive of one of them and lacks the event of
\* the other.
C9_LostUpdate ==
    (pc[1] = "done" /\ pc[2] = "done" /\ SameSnapshot) =>
        /\ archiveFile.exists /\ archiveFile.complete
        /\ NewEvent(1) # NewEvent(2)
        /\ \E w \in Procs :
             /\ archiveFile.doc = archive[w]
             /\ \A q \in Procs \ {w} :
                  NewEvent(q) \notin Range(archiveFile.doc.symbolic_events)

\* C9 witness: both runs finished on the same snapshot (the archive of an
\* earlier run), for two different sources, and the file holds the earlier
\* event and one new event only.
C9_Witness ==
    /\ pc[1] = "done" /\ pc[2] = "done"
    /\ SameSnapshot
    /\ filename[1] # filename[2]
    /\ Len(archiveFile.doc.symbolic_events) = 2
    /\ archiveFile.doc.symbolic_events[1] = PriorArchive.symbolic_events[1]

ErrorRecordKeys == {"timestamp", "source", "reason", "flag"}

\* C10: a document whose extraction fails ends failed: process_pdf returns
\* False, one {timestamp, source, reason, flag} record is appended to the
\* error log after the earlier ones, no provider is called and no result
\* file, reflection summary file or archive event is written.
C10_ExtractionFailureIsTerminal ==
    [][/\ (pc[1] = "idle" /\ pc'[1] # "idle" /\ content'[1].isNone) =>
            /\ pc'[1] = "failed"
            /\ result'[1] = FALSE
            /\ Len(errorLog') = Len(errorLog) + 1
            /\ Front(errorLog') = errorLog
            /\ DOMAIN Last(errorLog') = ErrorRecordKeys
            /\ Last(errorLog').source = filename'[1]
            /\ calls'[1] = <<>>
            /\ modiFiles' = modiFiles /\ valonFiles' = valonFiles
            /\ archiveFile' = archiveFile
       /\ pc[1] = "failed" =>
            /\ pc'[1] \in {"failed", "idle"}
            /\ calls'[1] = <<>>
            /\ files' = files
      ]_vars

\* C10 witness: a second document has failed extraction; its record follows
\* the record of the first.
C10_Witness ==
    /\ pc[1] = "failed"
    /\ content[1].isNone
    /\ Len(errorLog) = 2
    /\ Last(errorLog).source = filename[1]

\* C11: no error escapes process_pdf, so that process_directory goes on
\* with the remaining files whatever happens to one document.
C11_NoErrorEscapesDocument == pc[1] # "raised"

\* C12: with link enabled and no external memory system (no uid), a document
\* whose text was extracted is processed to the end as without link.
C12_LinkIsNoOpWithoutMemory ==
    (link[1] /\ ~Falsy(content[1]) /\ entry[1].hybrid_uid = NoUid)
        => pc[1] # "raised"

ReflectionAsked(p) ==
    \E k \in 1..Len(calls[p]) : calls[p][k].provider = "reflection"

\* C13: after a failed reflection call (empty/default reflection) the
\* document is not aborted: no error is raised and the run goes on to write
\* its files.
C13_ReflectionFailureNeverAborts ==
    (ReflectionAsked(1) /\ reflection[1] = EmptyReflection) => pc[1] # "raised"

Step == chunk_size - overlap

\* start_offset of the i-th chunk (i counted from 1).
StartOffset(i) == (i - 1) * Step

\* C15: chunk i starts at i * (chunk_size - overlap), counted from 0, and is
\* T[start : min(start + chunk_size, len(T))]; the loop stops as soon as the
\* cursor has reached len(T); a text of 4500 characters with 3000/500 gives
\* the two chunks [0,3000) and [2500,4500).
C15_ChunkOffsets ==
    pc[1] = "summarize" =>
        LET text == content[1].text
            n == Len(text)
            cks == chunks[1]
        IN /\ \A i \in 1..Len(cks) :
                /\ StartOffset(i) < n
                /\ cks[i] = SubSeq(text, StartOffset(i) + 1,
                                   Min(StartOffset(i) + chunk_size, n))
           /\ StartOffset(Len(cks) + 1) >= n
           /\ (chunk_size = 3000 /\ overlap = 500 /\ n = 4500) =>
                /\ Len(cks) = 2
                /\ cks[1] = SubSeq(text, 1, 3000)
                /\ cks[2] = SubSeq(text, 2501, 4500)

\* C15 witness: the text of 4500 characters under 3000/500, in two chunks.
C15_Witness ==
    /\ pc[1] = "summarize"
    /\ chunk_size = 3000 /\ overlap = 500
    /\ Len(content[1].text) = 4500
    /\ Len(chunks[1]) = 2

\* C16: consecutive chunks share exactly `overlap` characters: the last
\* `overlap` characters of chunk i are the first `overlap` characters of
\* chunk i+1.
C16_ExactOverlap ==
    pc[1] = "summarize" =>
        \A i \in 1..(Len(chunks[1]) - 1) :
            /\ Len(chunks[1][i]) >= overlap
            /\ Len(chunks[1][i + 1]) >= overlap
            /\ SubSeq(chunks[1][i], Len(chunks[1][i]) - overlap + 1, Len(chunks[1][i]))
                 = SubSeq(chunks[1][i + 1], 1, overlap)

AfterSummaries ==
    {"write_modi", "archive_read", "archive_open", "archive_dump", "write_valon", "done"}

AfterModi == AfterSummaries \ {"write_modi"}

ChunkHeader(i) == ChunkHeaderOpen \o IntToStr(i) \o ChunkHeaderClose

\* C17: the summary loop yields one record per chunk in ascending order:
\* record i starts with the header of chunk i and carries the answer kept
\* for that chunk (the last provider answer for it), and the summary written
\* to the result file and to the reflection summary file is these records
\* joined by a blank line.
C17_OneRecordPerChunk ==
    /\ Len(summaries[1]) <= Len(chunks[1])
    /\ \A i \in 1..Len(summaries[1]) :
         /\ CallsFor(1, i - 1) # <<>>
         /\ summaries[1][i] = ChunkHeader(i) \o Strip(Last(CallsFor(1, i - 1)).response)
    /\ pc[1] \in AfterSummaries =>
         /\ Len(summaries[1]) = Len(chunks[1])
         /\ entry[1].summary = Join(<<"\n", "\n">>, summaries[1])
    /\ pc[1] \in AfterModi =>
         modiFiles[OutputName(filename[1])].summary = Join(<<"\n", "\n">>, summaries[1])
    /\ pc[1] = "done" =>
         valonFiles[OutputName(filename[1])].summary = Join(<<"\n", "\n">>, summaries[1])

\* C17 witness: a finished document of three chunks, one summarized by the
\* primary and one by the fallback.
C17_Witness ==
    /\ pc[1] = "done"
    /\ Len(chunks[1]) = 3
    /\ \E i, j \in 0..2 : Len(CallsFor(1, i)) = 1 /\ Len(CallsFor(1, j)) = 2

\* The baseline result of the same source document is in the vault.
HasCounterpart(fs, source) == Exists(fs, VaultPath(BaselineName(source)))

\* C14, single pair: main either reports the missing files without calling
\* compare_results, or compare_results returns, with False and a diagnostic
\* when a file cannot be loaded.
C14_SinglePair ==
    \A arg \in CompareArgs :
        MainCompare(arg) =>
            IF Exists(resultFiles, OriginalFile(arg)) /\ Exists(resultFiles, arg)
            THEN /\ cret' # <<>>
                 /\ (LoadRaises(resultFiles, OriginalFile(arg))
                        \/ LoadRaises(resultFiles, arg))
                      => /\ cret' = <<FALSE>>
                         /\ Last(report').line = "compare_error"
            ELSE /\ cret' = <<>>
                 /\ Len(report') = 1
                 /\ report'[1].line = "missing_files"

\* C14, batch: an entry that is not a record is skipped.
C14_NonRecordsSkipped ==
    BatchCompareEntry =>
        (gemini_results.items[cindex + 1].t # "dict" => report' = report)

\* C14, batch: the loop ends only after the last entry.
C14_EveryEntryVisited ==
    /\ BatchCompareEntry => cindex' = cindex + 1
    /\ BatchCompareEnd => cindex = Len(gemini_results.items)

\* C14, batch: an entry whose source has no baseline result in the vault is
\* reported as "no match found".
C14_NoMatchReported ==
    BatchCompareEntry =>
        LET e == gemini_results.items[cindex + 1]
        IN (e.t = "dict" /\ ~HasCounterpart(resultFiles, Get(e, KSource, JStr(Unknown)).s))
              => Last(report').line = "no_match"

\* C14: nothing the comparison reads is changed.
C14_NothingModified ==
    /\ resultFiles' = resultFiles
    /\ geminiFile' = geminiFile
    /\ cpc = "loop" => gemini_results' = gemini_results

\* C14: the comparison run never ends in an uncaught error.
C14_RunNeverFails == cpc' # "raised"

\* C14: result comparison is pure reporting that never fails the run:
\* the single-pair comparison returns False with a diagnostic on a missing
\* or unreadable file, main reports missing files without comparing, the
\* batch comparator reports "no match found" for an entry without a
\* counterpart, skips entries that are not records and visits every entry,
\* and nothing compared is modified.
C14_ComparisonIsPureReporting ==
    [][/\ C14_RunNeverFails
       /\ C14_SinglePair
       /\ C14_NonRecordsSkipped
       /\ C14_EveryEntryVisited
       /\ C14_NoMatchReported
       /\ C14_NothingModified]_vars

====
